---- MODULE Spec2Model ----
(***************************************************************************)
(* Model of base/_interface.py of ida-minsc: the priorityhook dispatcher   *)
(* (Spec, SpecCycle with cycle and remove, SpecReentrant with callbacks    *)
(* that call add and discard), the conversions of typemap (SpecTypemap)    *)
(* and of ref_t (SpecRef), the registers of architecture_t (SpecArch) and  *)
(* the cases of switch_t (SpecSwitch).                                     *)
(*                                                                         *)
(* A callable is represented by the rank of its id(): Python 2 orders two  *)
(* function objects by their address, and that order is what the tuple     *)
(* comparison of (priority, callable) falls back to on equal priorities.   *)
(* Every order of registration relative to that rank is explored.          *)
(***************************************************************************)
EXTENDS Integers, Sequences, FiniteSets, TLC

\* ---------------------------------------------------------------- bounds
\* NumPriorities priority values are offered to add; MaxRegs bounds the number
\* of distinct (event, callable) pairs that a behaviour ever registers
NumPriorities == 2
MaxRegs == 3
\* the number of hook objects that a behaviour builds, the first one included
MaxObjects == 3
\* the element counts of the arrays given to typemap.resolve are 1..MaxCount,
\* the sizes given to typemap.dissolve with a structure 0..MaxSize
MaxCount == 3
MaxSize == 13
\* the number of registers that a behaviour defines
MaxRegisters == 3
\* at most this many cases, and entries of a branch table, in a switch
MaxCases == 2

\* ------------------------------------------------------------ vocabulary
\* events that the host hook type (self.__type__) implements
KnownEvents == {"renamed", "closebase"}
\* every name a caller may pass; "nosuchevent" is no attribute of the hook object
Names == KnownEvents \cup {"nosuchevent"}
\* the names that get is called with
GetNames == {"renamed"}
\* the callables, each named by the rank of its id()
Callables == {1, 2, 3}
\* the callables that add and discard are called with for an event: all of
\* them for "renamed", one for any other name
CallablesFor(name) == IF name = "renamed" THEN Callables ELSE {1}
Priorities == {10 * k : k \in 1..NumPriorities}

\* priorityhook.CONTINUE / priorityhook.STOP
CONTINUE == "CONTINUE"
STOP == "STOP"
\* what one invocation of a callback may do: return CONTINUE, return STOP,
\* raise, return a value that is no priorityhook.result (None, an int, ...),
\* or return some other instance of priorityhook.result
Outcomes == {CONTINUE, STOP, "RAISE", "NONE", "RESULT"}

VARIABLES cache, disabled, installed, tracebacks, ret, last,
          object, hooks, tmap, xref, regs, switch
vars == <<cache, disabled, installed, tracebacks, ret, last,
          object, hooks, tmap, xref, regs, switch>>
\* the state of the priorityhook instance and of its hook objects
hookvars == <<cache, disabled, installed, tracebacks, ret, last, object, hooks>>
\* the hook objects: self.object and what becomes of each object built
objvars == <<object, hooks>>
\* the state that belongs to typemap, ref_t, architecture_t and switch_t
othervars == <<tmap, xref, regs, switch>>

\* ------------------------------------------------------- helper operators
\* the callables of a queue, as a set
Funcs(q) == {q[i][2] : i \in 1..Len(q)}

\* hasattr(self.object, name)
hasattr(name) == name \in KnownEvents

\* self.__cache[name] on a collections.defaultdict(list): reading a missing
\* key stores an empty list under it
defaultdict_getitem(c, name) ==
    IF name \in DOMAIN c THEN c
    ELSE [n \in DOMAIN c \cup {name} |-> IF n = name THEN <<>> ELSE c[n]]

\* self.__cache.pop(name, [])
cache_pop(c, name) == [n \in DOMAIN c \ {name} |-> c[n]]

\* comparison of two (priority, callable) tuples
cmp_lt(a, b) == a[1] < b[1] \/ (a[1] = b[1] /\ a[2] < b[2])

\* heapq._siftdown(heap, 0, pos)
RECURSIVE siftdown(_, _, _)
siftdown(heap, newitem, pos) ==
    IF pos > 1
    THEN LET parentpos == pos \div 2
             parent == heap[parentpos]
         IN IF cmp_lt(newitem, parent)
            THEN siftdown([heap EXCEPT ![pos] = parent], newitem, parentpos)
            ELSE [heap EXCEPT ![pos] = newitem]
    ELSE [heap EXCEPT ![pos] = newitem]

\* heapq.heappush(heap, item)
heappush(heap, item) == siftdown(Append(heap, item), item, Len(heap) + 1)

\* sorted(q): insertion of each element into an ordered sequence
RECURSIVE insert_sorted(_, _)
insert_sorted(s, item) ==
    IF s = <<>> THEN <<item>>
    ELSE IF cmp_lt(item, Head(s)) THEN <<item>> \o s
    ELSE <<Head(s)>> \o insert_sorted(Tail(s), item)

RECURSIVE sorted(_)
sorted(q) == IF q = <<>> THEN <<>> ELSE insert_sorted(sorted(Tail(q)), Head(q))

\* variant: the queue is walked in its stored order
nsmallest_stored(hookq) == hookq

\* heapq.nsmallest(len(hookq), hookq): n >= len(hookq), so all of it, sorted
nsmallest(hookq) == sorted(hookq)

\* the loop of discard: every entry whose callable differs, in stored order
RECURSIVE discard_filter(_, _)
discard_filter(q, callable) ==
    IF q = <<>> THEN <<>>
    ELSE IF Head(q)[2] # callable
         THEN <<Head(q)>> \o discard_filter(Tail(q), callable)
         ELSE discard_filter(Tail(q), callable)

\* variant: the whole queue of the event is dropped
discard_cache_popall(c, name, callable) == cache_pop(c, name)

\* the cache that discard(name, callable) leaves, for name in self.__cache
discard_cache(c, name, callable) ==
    LET res == discard_filter(c[name], callable)
    IN IF res # <<>> THEN [c EXCEPT ![name] = res] ELSE cache_pop(c, name)

\* found != 0 at the end of discard
discard_found(c, name, callable) == callable \in Funcs(c[name])

\* variant: the other half of each pair is returned
get_tuple_first(q) == [i \in 1..Len(q) |-> q[i][1]]

\* tuple(f for _, f in res)
get_tuple(q) == [i \in 1..Len(q) |-> q[i][2]]

\* ---------------------------------------------------------------- records
\* ret: the last call of the interface, its arguments and what it gave back:
\* value is the returned boolean or the exception raised, found the local of
\* discard (for add, of the discard that add calls), items the tuple
\* returned by get
NoRet == [op |-> "none", name |-> "", callable |-> 0, priority |-> 0,
          found |-> FALSE, value |-> "", items |-> <<>>]
Ret(op, name, callable, priority, found, value, items) ==
    [op |-> op, name |-> name, callable |-> callable, priority |-> priority,
     found |-> found, value |-> value, items |-> items]
\* last: the last run of a trampoline: the entries invoked, in order, what
\* each invocation did, the exception that left the trampoline, and the
\* number of calls of the superclass method
NoFire == [name |-> "", entered |-> FALSE, invoked |-> <<>>, results |-> <<>>,
           exc |-> "none", super |-> 0]

\* no conversion of typemap or ref_t has been asked for
NoConv == [stage |-> "none"]
\* no method of architecture_t or register_t has been called: call holds the
\* last call, its arguments (size 0 stands for None) and what it gave back
NoCall == [op |-> "none", register |-> 0, size |-> 0, other |-> 0,
           exc |-> "none", result |-> 0, subset |-> FALSE, superset |-> FALSE]
\* an architecture_t without registers
NoArch == [table |-> <<>>, call |-> NoCall]
\* no switch_t has been built
NoSwitch == [stage |-> "none"]

\* ------------------------------------------------------------------- Init
\* __init__: an empty cache, nothing disabled, no backtraces; self.object is
\* what cycle builds from a fresh instance of the hook type: the first hook
\* object, hooked, of a class without trampolines
InitHook ==
    /\ cache = [n \in {} |-> <<>>]
    /\ disabled = {}
    /\ installed = {}
    /\ tracebacks = {}
    /\ ret = NoRet
    /\ last = NoFire
    /\ object = 1
    /\ hooks = <<[hooked |-> TRUE, methods |-> {}]>>

Init ==
    /\ InitHook
    /\ tmap = NoConv
    /\ xref = NoConv
    /\ regs = NoArch
    /\ switch = NoSwitch

\* ---------------------------------------------------------------- enable
enable(name) ==
    /\ IF name \notin disabled
       THEN \* logging.fatal(... cls.__name__ ...): cls is not bound in enable
            /\ ret' = Ret("enable", name, 0, 0, FALSE, "NameError", <<>>)
            /\ UNCHANGED disabled
       ELSE /\ disabled' = disabled \ {name}
            /\ ret' = Ret("enable", name, 0, 0, FALSE, "True", <<>>)
    /\ last' = NoFire
    /\ UNCHANGED <<cache, installed, tracebacks, objvars, othervars>>

\* --------------------------------------------------------------- disable
disable(name) ==
    /\ IF name \notin DOMAIN cache
       THEN \* logging.fatal(... cls.__name__ ...): cls is not bound in disable
            /\ ret' = Ret("disable", name, 0, 0, FALSE, "NameError", <<>>)
            /\ UNCHANGED disabled
       ELSE IF name \in disabled
       THEN \* logging.warn(... cls.__name__ ...): cls is not bound in disable
            /\ ret' = Ret("disable", name, 0, 0, FALSE, "NameError", <<>>)
            /\ UNCHANGED disabled
       ELSE /\ disabled' = disabled \cup {name}
            /\ ret' = Ret("disable", name, 0, 0, FALSE, "True", <<>>)
    /\ last' = NoFire
    /\ UNCHANGED <<cache, installed, tracebacks, objvars, othervars>>

\* ------------------------------------------------------------------- add
\* variant: add without its call of discard
add_cache_nodiscard(c, name, callable, priority) ==
    LET c2 == defaultdict_getitem(c, name)
    IN [c2 EXCEPT ![name] = heappush(c2[name], <<priority, callable>>)]

\* the cache after the discard and the heappush of add
add_cache(c, name, callable, priority) ==
    LET c1 == IF name \in DOMAIN c THEN discard_cache(c, name, callable) ELSE c
        c2 == defaultdict_getitem(c1, name)
    IN [c2 EXCEPT ![name] = heappush(c2[name], <<priority, callable>>)]

add(name, callable, priority) ==
    /\ \/ ~hasattr(name)
       \/ Cardinality(tracebacks) < MaxRegs
       \/ <<name, callable>> \in tracebacks
    /\ IF ~hasattr(name)
       THEN \* apply (name not in the cache) or discard (name in it) raises
            /\ ret' = Ret("add", name, callable, priority, FALSE,
                          "AttributeError", <<>>)
            /\ UNCHANGED <<cache, installed, tracebacks>>
       ELSE /\ installed' = IF name \notin DOMAIN cache
                            THEN installed \cup {name} ELSE installed
            /\ cache' = add_cache(cache, name, callable, priority)
            /\ tracebacks' = tracebacks \cup {<<name, callable>>}
            /\ ret' = Ret("add", name, callable, priority,
                          name \in DOMAIN cache /\ discard_found(cache, name, callable),
                          "True", <<>>)
    /\ last' = NoFire
    /\ UNCHANGED <<disabled, objvars, othervars>>

\* ------------------------------------------------------------------- get
get(name) ==
    /\ cache' = defaultdict_getitem(cache, name)
    /\ ret' = Ret("get", name, 0, 0, FALSE, "tuple", get_tuple(cache'[name]))
    /\ last' = NoFire
    /\ UNCHANGED <<disabled, installed, tracebacks, objvars, othervars>>

\* --------------------------------------------------------------- discard
discard(name, callable) ==
    /\ IF ~hasattr(name)
       THEN /\ ret' = Ret("discard", name, callable, 0, FALSE,
                          "AttributeError", <<>>)
            /\ UNCHANGED cache
       ELSE IF name \notin DOMAIN cache
       THEN /\ ret' = Ret("discard", name, callable, 0, FALSE, "False", <<>>)
            /\ UNCHANGED cache
       ELSE /\ cache' = discard_cache(cache, name, callable)
            /\ ret' = Ret("discard", name, callable, 0,
                          discard_found(cache, name, callable),
                          IF discard_found(cache, name, callable)
                          THEN "True" ELSE "False", <<>>)
    /\ last' = NoFire
    /\ UNCHANGED <<disabled, installed, tracebacks, objvars, othervars>>

\* ------------------------------------------------- apply(name).method
\* variant: the handler sets res to CONTINUE
callback_result_continue(name, func, outcome) ==
    IF outcome = "RAISE"
    THEN IF <<name, func>> \in tracebacks THEN CONTINUE ELSE "KeyError"
    ELSE outcome

\* what the try/except around func(*args) leaves in res; "KeyError" when the
\* handler's lookup of self.__traceback[name, func] fails
callback_result(name, func, outcome) ==
    IF outcome = "RAISE"
    THEN IF <<name, func>> \in tracebacks THEN STOP ELSE "KeyError"
    ELSE outcome

\* variant: STOP goes on as well
is_continue_stop(res) == res = "NONE" \/ res = CONTINUE \/ res = STOP

\* variant: only CONTINUE goes on
is_continue_strict(res) == res = CONTINUE

\* if not isinstance(res, self.result) or res == self.CONTINUE: continue
is_continue(res) == res = "NONE" \/ res = CONTINUE

\* elif res == self.STOP: break
is_stop(res) == res = STOP

\* the for loop over heapq.nsmallest(...): the entries invoked from position
\* i on and the exception that leaves the loop, if any
RECURSIVE hook_loop(_, _, _, _)
hook_loop(name, order, outcomes, i) ==
    IF i > Len(order) THEN [invoked |-> <<>>, exc |-> "none"]
    ELSE LET res == callback_result(name, order[i][2], outcomes[i])
         IN IF res = "KeyError"
            THEN [invoked |-> <<order[i]>>, exc |-> "KeyError"]
            ELSE IF is_continue(res)
            THEN LET rest == hook_loop(name, order, outcomes, i + 1)
                 IN [invoked |-> <<order[i]>> \o rest.invoked, exc |-> rest.exc]
            ELSE IF is_stop(res)
            THEN [invoked |-> <<order[i]>>, exc |-> "none"]
            ELSE [invoked |-> <<order[i]>>, exc |-> "TypeError"]

\* the events for which hook object o carries a trampoline: those in the
\* namespace of its class and, on self.object, those that add has set on it
trampolines(o) ==
    hooks[o].methods \cup (IF o = object THEN installed ELSE {})

\* the host calls the event name on every hooked object; one with a trampoline
\* for it runs the callbacks
fires(name) ==
    \E o \in DOMAIN hooks : hooks[o].hooked /\ name \in trampolines(o)

\* variant: the disabled set is not looked at
method_enters_always(name) == name \in DOMAIN cache

\* if name in self.__cache and name not in self.__disabled
method_enters(name) == name \in DOMAIN cache /\ name \notin disabled

\* variant: the superclass call sits inside the if
supermethod_calls_inside(entered, exc) == IF entered /\ exc = "none" THEN 1 ELSE 0

\* return supermethod(*args), reached unless an exception left the loop
supermethod_calls(entered, exc) == IF exc = "none" THEN 1 ELSE 0

\* variant: a raising callback gets its event disabled
method_disabling(name, outcomes) ==
    /\ fires(name)
    /\ LET order == IF method_enters(name) THEN nsmallest(cache[name]) ELSE <<>>
           run == hook_loop(name, order, outcomes, 1)
           results == SubSeq(outcomes, 1, Len(run.invoked))
       IN /\ last' = [name |-> name,
                      entered |-> method_enters(name),
                      invoked |-> run.invoked,
                      results |-> results,
                      exc |-> run.exc,
                      super |-> supermethod_calls(method_enters(name), run.exc)]
          /\ disabled' = IF \E i \in 1..Len(results) : results[i] = "RAISE"
                         THEN disabled \cup {name} ELSE disabled
    /\ ret' = NoRet
    /\ UNCHANGED <<cache, installed, tracebacks, objvars, othervars>>

\* the host fires the event name on the hook object, whose trampoline runs
method(name, outcomes) ==
    /\ fires(name)
    /\ LET order == IF method_enters(name) THEN nsmallest(cache[name]) ELSE <<>>
           run == hook_loop(name, order, outcomes, 1)
       IN last' = [name |-> name,
                   entered |-> method_enters(name),
                   invoked |-> run.invoked,
                   results |-> SubSeq(outcomes, 1, Len(run.invoked)),
                   exc |-> run.exc,
                   super |-> supermethod_calls(method_enters(name), run.exc)]
    /\ ret' = NoRet
    /\ UNCHANGED <<cache, disabled, installed, tracebacks, objvars, othervars>>

\* ----------------------------------------------------------------- cycle
\* the objects cycle may be given: None (the default of the parameter), a new
\* instance of the hook type as in __init__, or an object that cycle built
CycleArgs ==
    {<<"None", 0>>, <<"new", 0>>} \cup {<<"built", o>> : o \in DOMAIN hooks}

\* ok = object.unhook(): the object given is no longer hooked
cycle_unhook(arg) ==
    IF arg[1] = "built" THEN [hooks EXCEPT ![arg[2]].hooked = FALSE] ELSE hooks

\* self.apply(name) raises for a name of the cache that self.object lacks
cycle_apply_raises == \E name \in DOMAIN cache : ~hasattr(name)

\* variant: cycle starts again with nothing disabled
cycle_forgetting(arg) ==
    /\ arg[1] = "None" \/ cycle_apply_raises \/ Len(hooks) < MaxObjects
    /\ IF arg[1] = "None"
       THEN /\ ret' = Ret("cycle", "", 0, 0, FALSE, "AttributeError", <<>>)
            /\ UNCHANGED hooks
       ELSE IF cycle_apply_raises
       THEN /\ ret' = Ret("cycle", "", arg[2], 0, FALSE, "AttributeError", <<>>)
            /\ hooks' = cycle_unhook(arg)
       ELSE /\ ret' = Ret("cycle", "", arg[2], 0, FALSE, "object",
                          <<Len(hooks) + 1>>)
            /\ hooks' = Append(cycle_unhook(arg),
                               [hooked |-> TRUE, methods |-> DOMAIN cache])
    /\ disabled' = {}
    /\ last' = NoFire
    /\ UNCHANGED <<cache, installed, tracebacks, object, othervars>>

\* cycle(object): unhooks the object given, builds a class whose namespace
\* holds a trampoline for every name of the cache, hooks an instance of it and
\* returns that instance; self.object is not assigned.  ret.callable is the
\* object given, ret.items holds the object returned
cycle(arg) ==
    /\ arg[1] = "None" \/ cycle_apply_raises \/ Len(hooks) < MaxObjects
    /\ IF arg[1] = "None"
       THEN \* None has no attribute unhook
            /\ ret' = Ret("cycle", "", 0, 0, FALSE, "AttributeError", <<>>)
            /\ UNCHANGED hooks
       ELSE IF cycle_apply_raises
       THEN /\ ret' = Ret("cycle", "", arg[2], 0, FALSE, "AttributeError", <<>>)
            /\ hooks' = cycle_unhook(arg)
       ELSE /\ ret' = Ret("cycle", "", arg[2], 0, FALSE, "object",
                          <<Len(hooks) + 1>>)
            /\ hooks' = Append(cycle_unhook(arg),
                               [hooked |-> TRUE, methods |-> DOMAIN cache])
    /\ last' = NoFire
    /\ UNCHANGED <<cache, disabled, installed, tracebacks, object, othervars>>

\* ---------------------------------------------------------------- remove
\* remove(): self.object.unhook(), which tells whether the object was hooked
remove ==
    /\ ret' = Ret("remove", "", object, 0, FALSE,
                  IF hooks[object].hooked THEN "True" ELSE "False", <<>>)
    /\ hooks' = [hooks EXCEPT ![object].hooked = FALSE]
    /\ last' = NoFire
    /\ UNCHANGED <<cache, disabled, installed, tracebacks, object, othervars>>

\* the outcomes a firing of name may meet, one per queued callback; a callback
\* queued behind one that does not let the loop go on is given CONTINUE
FireOutcomes(name) ==
    {o \in [1..(IF method_enters(name) THEN Len(cache[name]) ELSE 0) -> Outcomes] :
        \A i \in DOMAIN o : o[i] \notin {CONTINUE, "NONE"} =>
            \A j \in DOMAIN o : j > i => o[j] = CONTINUE}

\* ------------------------------------------------------------------- Next
Next ==
    \/ \E name \in Names : enable(name)
    \/ \E name \in Names : disable(name)
    \/ \E name \in Names : \E callable \in CallablesFor(name), priority \in Priorities :
          add(name, callable, priority)
    \/ \E name \in GetNames : get(name)
    \/ \E name \in Names : \E callable \in CallablesFor(name) :
          discard(name, callable)
    \/ \E name \in KnownEvents : \E outcomes \in FireOutcomes(name) :
          method(name, outcomes)

Spec == Init /\ [][Next]_vars

\* the inputs of the behaviours that cycle and remove take part in: the
\* callables and priorities given to add, the event that is disabled, enabled
\* and discarded from, the name given to get (no event of the hook object, so
\* that the cache comes to hold a name that apply rejects), and firings whose
\* callbacks return CONTINUE
CycleCallablesFor(name) == IF name = "renamed" THEN {1, 2} ELSE {1}
CyclePriorities(name) == IF name = "renamed" THEN {10, 20} ELSE {10}
CycleToggled == {"renamed"}
CycleGetNames == {"nosuchevent"}
CycleOutcomes(name) == {o \in FireOutcomes(name) : \A i \in DOMAIN o : o[i] = CONTINUE}

\* the dispatcher with its hook objects cycled and removed as well
NextCycle ==
    \/ \E name \in CycleToggled : enable(name)
    \/ \E name \in CycleToggled : disable(name)
    \/ \E name \in KnownEvents :
          \E callable \in CycleCallablesFor(name), priority \in CyclePriorities(name) :
             add(name, callable, priority)
    \/ \E name \in CycleGetNames : get(name)
    \/ \E name \in CycleToggled : \E callable \in CycleCallablesFor(name) :
          discard(name, callable)
    \/ \E name \in KnownEvents : \E outcomes \in CycleOutcomes(name) :
          method(name, outcomes)
    \/ \E arg \in CycleArgs : cycle(arg)
    \/ remove

SpecCycle == Init /\ [][NextCycle]_vars

\* ---------------------------------------------- callbacks that call back
\* A callback may call add or discard of the dispatcher for the event that is
\* being dispatched before it returns. calls[i] is what the i-th callback
\* invoked does: nothing, self.add(name, callable, priority) or
\* self.discard(name, callable).
NoReentry == [op |-> "none", callable |-> 0, priority |-> 0]
ReentrantCalls ==
    {NoReentry}
    \cup {[op |-> "add", callable |-> g, priority |-> p] :
             g \in Callables, p \in CyclePriorities("renamed")}
    \cup {[op |-> "discard", callable |-> g, priority |-> 0] : g \in Callables}

\* the cache that the call made by a callback leaves: add_cache of add,
\* discard_cache of discard (which returns early for a name not in the cache)
reenter_cache(c, name, call) ==
    IF call.op = "add" THEN add_cache(c, name, call.callable, call.priority)
    ELSE IF call.op = "discard" /\ name \in DOMAIN c
         THEN discard_cache(c, name, call.callable)
    ELSE c

\* variant: every iteration walks the queue as the cache holds it then
loop_order_live(order, c, name) ==
    IF name \in DOMAIN c THEN nsmallest(c[name]) ELSE <<>>

\* what the for loop walks while the cache is c: the list that
\* heapq.nsmallest built from the copy hookq before the first invocation
loop_order(order, c, name) == order

\* the for loop of the trampoline with callbacks that call back: the entries
\* invoked from position i on, the exception that leaves the loop, the cache
\* the callbacks leave, the callables they gave to add, and whether an add
\* found the name missing from the cache (and so set the trampoline again)
RECURSIVE reentrant_loop(_, _, _, _, _, _)
reentrant_loop(name, order, outcomes, calls, i, c) ==
    LET walk == loop_order(order, c, name)
    IN IF i > Len(walk)
       THEN [invoked |-> <<>>, exc |-> "none", cache |-> c, added |-> {},
             applied |-> FALSE]
       ELSE LET call == IF i \in DOMAIN calls THEN calls[i] ELSE NoReentry
                outcome == IF i \in DOMAIN outcomes THEN outcomes[i] ELSE CONTINUE
                c2 == reenter_cache(c, name, call)
                added == IF call.op = "add" THEN {call.callable} ELSE {}
                applied == call.op = "add" /\ name \notin DOMAIN c
                res == callback_result(name, walk[i][2], outcome)
                rest == IF res # "KeyError" /\ is_continue(res)
                        THEN reentrant_loop(name, order, outcomes, calls, i + 1, c2)
                        ELSE [invoked |-> <<>>,
                              exc |-> IF res = "KeyError" THEN "KeyError"
                                      ELSE IF is_stop(res) THEN "none"
                                      ELSE "TypeError",
                              cache |-> c2, added |-> {}, applied |-> FALSE]
            IN [invoked |-> <<walk[i]>> \o rest.invoked,
                exc |-> rest.exc,
                cache |-> rest.cache,
                added |-> added \cup rest.added,
                applied |-> applied \/ rest.applied]

\* the host fires the event name, the trampoline enters the loop, and the
\* callbacks it invokes make the calls given; ret keeps the calls made
method_reentrant(name, outcomes, calls) ==
    /\ fires(name)
    /\ method_enters(name)
    /\ LET order == nsmallest(cache[name])
           run == reentrant_loop(name, order, outcomes, calls, 1, cache)
           n == Len(run.invoked)
       IN /\ Cardinality(tracebacks \cup {<<name, g>> : g \in run.added}) <= MaxRegs
          /\ last' = [name |-> name,
                      entered |-> TRUE,
                      invoked |-> run.invoked,
                      results |-> [i \in 1..n |-> IF i \in DOMAIN outcomes
                                                  THEN outcomes[i] ELSE CONTINUE],
                      exc |-> run.exc,
                      super |-> supermethod_calls(TRUE, run.exc)]
          /\ cache' = run.cache
          /\ tracebacks' = tracebacks \cup {<<name, g>> : g \in run.added}
          /\ installed' = IF run.applied THEN installed \cup {name} ELSE installed
          /\ ret' = Ret("method", name, 0, 0, FALSE, "",
                        [i \in 1..n |-> IF i \in DOMAIN calls
                                        THEN calls[i] ELSE NoReentry])
    /\ UNCHANGED <<disabled, objvars, othervars>>

\* the dispatcher of one event, "renamed", with callbacks that call back: in
\* one firing one callback does, and the callbacks return CONTINUE or STOP
NextReentrant ==
    \/ \E callable \in Callables, priority \in CyclePriorities("renamed") :
          add("renamed", callable, priority)
    \/ \E callable \in Callables : discard("renamed", callable)
    \/ \E outcomes \in FireOutcomes("renamed") : method("renamed", outcomes)
    \/ LET n == IF "renamed" \in DOMAIN cache THEN Len(cache["renamed"]) ELSE 0
       IN \E outcomes \in [1..n -> {CONTINUE, STOP}],
             calls \in [1..n -> ReentrantCalls] :
             /\ Cardinality({i \in DOMAIN calls : calls[i] # NoReentry}) = 1
             /\ method_reentrant("renamed", outcomes, calls)

SpecReentrant == Init /\ [][NextReentrant]_vars

\* ================================================================ typemap
\* A flag of IDA is held in units of 0x10000: its low 16 bits (FF_DATA and
\* the bits of the byte value) play no part in resolve or dissolve.
\* idaapi.byteflag() ... idaapi.ywrdflag(): the size class, the top four bits
FF_BYTE == 0
FF_WORD == 4096
FF_DWRD == 8192
FF_QWRD == 12288
FF_TBYT == 16384
FF_ASCI == 20480
FF_STRU == 24576
FF_OWRD == 28672
FF_FLOAT == 32768
FF_DOUBLE == 36864
FF_PACKREAL == 40960
FF_ALIGN == 45056
FF_3BYTE == 49152
FF_YWRD == 57344
\* idaapi.FF_SIGN, 0x00020000
FF_SIGN == 2
\* idaapi.offflag(): FF_0OFF | FF_1OFF, 0x05500000
FF_OFF == 1360
\* typemap.FF_MASKSIZE and typemap.FF_MASK
FF_MASKSIZE == 61440
FF_MASK == 65520
\* idaapi.ASCSTR_TERMCHR and idaapi.ASCSTR_UNICODE
ASCSTR_TERMCHR == 0
ASCSTR_UNICODE == 3

\* flag & FF_MASKSIZE, flag & FF_MASK: the masks are runs of high bits
and_masksize(flag) == (flag \div 4096) * 4096
and_mask(flag) == (flag \div 16) * 16
\* flag & idaapi.FF_SIGN == idaapi.FF_SIGN
has_sign(flag) == (flag \div FF_SIGN) % 2 = 1
\* flag | idaapi.FF_SIGN
or_sign(flag) == IF has_sign(flag) THEN flag ELSE flag + FF_SIGN
\* idaapi.offflag() | flg, for a flg of integermap, which has none of its bits
or_off(flg) == flg + FF_OFF

\* ------------------------------------------------------ the environment
\* what the tables depend on: idaapi.__version__ >= 7.0, hasattr(idaapi,
\* 'ywrdflag'), the bits that __newprc__ saw (0: it has not run, or the
\* database is neither 32 nor 64 bits), and the order in which the
\* interpreter walks decimalmap.items() and stringmap.items(), of which the
\* last item with a flag is the one that inverted keeps
Environments ==
    [version7 : BOOLEAN, ywrd : BOOLEAN, bits : {0, 32, 64},
     lastreal : {10, 12}, laststr : {"chr", "str", "unicode"}]

\* the structures of the database: by_identifier(typeid).size
StructSizes == [s4 |-> 4, s6 |-> 6, s0 |-> 0]
StructIds == DOMAIN StructSizes

\* -------------------------------------------------------- pythonic types
\* (t, sz), [element, count], a structure_t, and a bare type such as int
PyTuple(t, sz) == [form |-> "tuple", t |-> t, sz |-> sz]
PyList(element, count) == [form |-> "list", element |-> element, count |-> count]
PyStruct(id) == [form |-> "struct", id |-> id]
PyType(t) == [form |-> "type", t |-> t]

\* the keys of typemap.typemap; "type" is a pointer, "None" an alignment
Types == {"int", "long", "float", "str", "unicode", "chr", "type", "None"}

\* a typeid: idaapi.BADADDR, a string type, or the id of a structure
BadAddr == [kind |-> "BADADDR", num |-> 0, id |-> ""]
NumTid(n) == [kind |-> "num", num |-> n, id |-> ""]
StructTid(id) == [kind |-> "struct", num |-> 0, id |-> id]

\* ------------------------------------------------------------ the tables
\* integermap: size -> flag (the typeid of each is -1)
integermap_sizes(env) ==
    {1, 2, 4, 8, 10, 16} \cup (IF env.version7 THEN {} ELSE {3})
                         \cup (IF env.ywrd THEN {32} ELSE {})
integermap_flag(size) ==
    CASE size = 1 -> FF_BYTE [] size = 2 -> FF_WORD [] size = 3 -> FF_3BYTE
      [] size = 4 -> FF_DWRD [] size = 8 -> FF_QWRD [] size = 10 -> FF_TBYT
      [] size = 16 -> FF_OWRD [] size = 32 -> FF_YWRD

\* decimalmap: size -> flag (the typeid of each is -1)
decimalmap_sizes == {4, 8, 10, 12}
decimalmap_flag(size) ==
    CASE size = 4 -> FF_FLOAT [] size = 8 -> FF_DOUBLE
      [] size = 10 -> FF_PACKREAL [] size = 12 -> FF_PACKREAL

\* stringmap: type -> typeid (the flag of each is idaapi.asciflag())
stringmap_keys == {"chr", "str", "unicode"}
stringmap_typeid(t) ==
    CASE t = "chr" -> 0 [] t = "str" -> ASCSTR_TERMCHR [] t = "unicode" -> ASCSTR_UNICODE

\* table[key] of resolve for a tuple (t, sz): the (flag, typeid) of the table
\* typemap.typemap[t] under the key abs(sz), or t for the string types and
\* None; found is FALSE where the lookup raises KeyError
Abs(n) == IF n < 0 THEN 0 - n ELSE n
table_lookup(env, t, sz) ==
    IF t \in {"int", "long"}
    THEN IF Abs(sz) \in integermap_sizes(env)
         THEN [found |-> TRUE, flag |-> integermap_flag(Abs(sz)), typeid |-> -1]
         ELSE [found |-> FALSE, flag |-> 0, typeid |-> -1]
    ELSE IF t = "float"
    THEN IF Abs(sz) \in decimalmap_sizes
         THEN [found |-> TRUE, flag |-> decimalmap_flag(Abs(sz)), typeid |-> -1]
         ELSE [found |-> FALSE, flag |-> 0, typeid |-> -1]
    ELSE IF t = "type"
    THEN IF Abs(sz) \in integermap_sizes(env)
         THEN [found |-> TRUE, flag |-> or_off(integermap_flag(Abs(sz))), typeid |-> -1]
         ELSE [found |-> FALSE, flag |-> 0, typeid |-> -1]
    ELSE IF t \in stringmap_keys
    THEN [found |-> TRUE, flag |-> FF_ASCI, typeid |-> stringmap_typeid(t)]
    ELSE \* nonemap[None]
         [found |-> TRUE, flag |-> FF_ALIGN, typeid |-> -1]

\* table[None] of resolve for a bare type: the entries that __newprc__ adds
\* (integermap[bits/8], decimalmap[bits/8], ptrmap[bits/8], stringmap[str]);
\* nonemap has its key None from the start
table_default(env, t) ==
    IF t = "None" THEN [found |-> TRUE, flag |-> FF_ALIGN, typeid |-> -1]
    ELSE IF env.bits = 0 THEN [found |-> FALSE, flag |-> 0, typeid |-> -1]
    ELSE IF t \in stringmap_keys
    THEN [found |-> TRUE, flag |-> FF_ASCI, typeid |-> ASCSTR_TERMCHR]
    ELSE table_lookup(env, t, env.bits \div 8)

\* idaapi.get_data_elsize(ea, flag, opinfo) for the flags of the tables: the
\* width of the size class, one byte for a string and for an alignment
get_data_elsize(flag) ==
    LET dt == and_masksize(flag)
    IN CASE dt = FF_BYTE -> 1 [] dt = FF_WORD -> 2 [] dt = FF_3BYTE -> 3
         [] dt = FF_DWRD -> 4 [] dt = FF_QWRD -> 8 [] dt = FF_TBYT -> 10
         [] dt = FF_OWRD -> 16 [] dt = FF_YWRD -> 32 [] dt = FF_FLOAT -> 4
         [] dt = FF_DOUBLE -> 8 [] dt = FF_PACKREAL -> 10
         [] OTHER -> 1

\* typemap.inverted, as the loops of the class body leave it: a function
\* from masked flag to (type, size); isint tells whether the size is an
\* integer (for a string the "size" is the key of stringmap, a type)
InvInt(t, sz) == [t |-> t, isint |-> TRUE, sz |-> sz, szt |-> ""]
InvType(t, szt) == [t |-> t, isint |-> FALSE, sz |-> 0, szt |-> szt]
inverted(env) ==
    LET ints == [f \in {and_masksize(integermap_flag(s)) : s \in integermap_sizes(env)} |->
                    InvInt("int", CHOOSE s \in integermap_sizes(env) :
                                      and_masksize(integermap_flag(s)) = f)]
        decs == [f \in {and_masksize(decimalmap_flag(s)) : s \in decimalmap_sizes} |->
                    InvInt("float",
                           IF f = FF_PACKREAL THEN env.lastreal
                           ELSE CHOOSE s \in decimalmap_sizes :
                                   and_masksize(decimalmap_flag(s)) = f)]
        strs == [f \in {and_masksize(FF_ASCI)} |-> InvType("str", env.laststr)]
        ptrs == [f \in {and_mask(or_off(integermap_flag(s))) : s \in integermap_sizes(env)} |->
                    InvInt("type", CHOOSE s \in integermap_sizes(env) :
                                       and_mask(or_off(integermap_flag(s))) = f)]
        stru == [f \in {FF_STRU} |-> InvInt("int", 1)]
    IN stru @@ ptrs @@ strs @@ decs @@ ints

\* dt = flag & cls.FF_MASKSIZE
dissolve_dt(flag) == and_masksize(flag)

\* --------------------------------------------------------------- resolve
\* typemap.resolve(pythonType): flag, typeid and size, or the exception
Resolved(flag, typeid, size) ==
    [exc |-> "none", flag |-> flag, typeid |-> typeid, size |-> size]
ResolveRaises(exc) == [exc |-> exc, flag |-> 0, typeid |-> BadAddr, size |-> 0]
\* typeid = idaapi.BADADDR if typeid < 0 else typeid
resolve_typeid(typeid) == IF typeid < 0 THEN BadAddr ELSE NumTid(typeid)

RECURSIVE resolve(_, _)
resolve(env, pythonType) ==
    IF pythonType.form = "tuple"
    THEN LET e == table_lookup(env, pythonType.t, pythonType.sz)
         IN IF ~e.found THEN ResolveRaises("KeyError")
            ELSE Resolved(IF pythonType.sz < 0 THEN or_sign(e.flag) ELSE e.flag,
                          resolve_typeid(e.typeid), Abs(pythonType.sz) * 1)
    ELSE IF pythonType.form = "list"
    THEN LET r == resolve(env, pythonType.element)
         IN IF r.exc # "none" THEN r
            ELSE \* sz is the size that the inner call returned, never negative
                 Resolved(r.flag, r.typeid, Abs(r.size) * pythonType.count)
    ELSE IF pythonType.form = "struct"
    THEN Resolved(FF_STRU, StructTid(pythonType.id), Abs(StructSizes[pythonType.id]) * 1)
    ELSE LET e == table_default(env, pythonType.t)
         IN IF ~e.found THEN ResolveRaises("KeyError")
            ELSE Resolved(e.flag, resolve_typeid(e.typeid), get_data_elsize(e.flag))

\* -------------------------------------------------------------- dissolve
\* what dissolve returns: a pythonic type, or the exception it raises
Raises(exc) == [form |-> "raise", exc |-> exc]

\* the structure branch: return t if sz == size else [t, size // sz]
dissolve_structure(id, size) ==
    LET sz == StructSizes[id]
    IN IF sz = size THEN PyStruct(id)
       ELSE IF sz = 0 THEN Raises("ZeroDivisionError")
       ELSE PyList(PyStruct(id), size \div sz)

dissolve(env, flag, typeid, size) ==
    LET dt == dissolve_dt(flag)
        sf == IF has_sign(flag) THEN -1 ELSE 1
        inv == inverted(env)
    IN IF dt = FF_STRU /\ typeid.kind = "struct"
       THEN dissolve_structure(typeid.id, size)
       ELSE IF dt = FF_STRU /\ typeid.kind # "struct"
       THEN \* by_identifier finds no structure under a string type or BADADDR
            Raises("LookupError")
       ELSE IF dt \notin DOMAIN inv THEN Raises("KeyError")
       ELSE LET t == inv[dt].t
                sz == inv[dt].sz
            IN IF ~inv[dt].isint
               THEN LET count == size \div get_data_elsize(dt)
                    IN IF count > 1 THEN PyList(PyType(t), count) ELSE PyType(t)
               ELSE IF sz = size THEN PyTuple(t, sz * sf)
               ELSE PyList(PyTuple(t, sz * sf), size \div sz)

\* ------------------------------------------- the conversions of typemap
\* the sizes of the tuples given to resolve: those of the tables, some with
\* the sign that stands for a signed type, and one that no table has
Sizes == {-8, -4, -1, 1, 2, 3, 4, 5, 8, 10, 12, 16, 32}
Counts == 1..MaxCount
TupleInputs == {PyTuple(t, sz) : t \in Types, sz \in Sizes}
StructInputs == {PyStruct(id) : id \in StructIds}
ListInputs == {PyList(e, n) : e \in TupleInputs \cup StructInputs, n \in Counts}
TypeInputs == {PyType(t) : t \in Types}
PythonTypes == TupleInputs \cup StructInputs \cup ListInputs \cup TypeInputs

NoPy == [form |-> "none"]
NoIda == [exc |-> "unset", flag |-> 0, typeid |-> BadAddr, size |-> 0]

\* tmap: the environment, the pythonic type given to resolve, what resolve
\* returned (or the triple given to dissolve), and what dissolve returned
InitTypemap ==
    /\ InitHook
    /\ xref = NoConv
    /\ regs = NoArch
    /\ switch = NoSwitch
    /\ tmap \in {[stage |-> "start", env |-> env, py |-> NoPy, ida |-> NoIda,
                  out |-> NoPy] : env \in Environments}

\* typemap.resolve(pythonType)
do_resolve(pythonType) ==
    /\ tmap.stage = "start"
    /\ tmap' = [tmap EXCEPT !.stage = "resolved", !.py = pythonType,
                            !.ida = resolve(tmap.env, pythonType)]
    /\ UNCHANGED <<hookvars, xref, regs, switch>>

\* typemap.dissolve(*typemap.resolve(pythonType))
do_dissolve ==
    /\ tmap.stage = "resolved"
    /\ tmap.ida.exc = "none"
    /\ tmap' = [tmap EXCEPT !.stage = "dissolved",
                            !.out = dissolve(tmap.env, tmap.ida.flag,
                                             tmap.ida.typeid, tmap.ida.size)]
    /\ UNCHANGED <<hookvars, xref, regs, switch>>

\* typemap.dissolve(idaapi.struflag(), id, size) on the member of a structure
do_dissolve_structure(id, size) ==
    /\ tmap.stage = "start"
    /\ tmap' = [tmap EXCEPT !.stage = "dissolved",
                            !.ida = Resolved(FF_STRU, StructTid(id), size),
                            !.out = dissolve(tmap.env, FF_STRU, StructTid(id), size)]
    /\ UNCHANGED <<hookvars, xref, regs, switch>>

NextTypemap ==
    \/ \E pythonType \in PythonTypes : do_resolve(pythonType)
    \/ do_dissolve
    \/ \E id \in StructIds, size \in 0..MaxSize : do_dissolve_structure(id, size)

SpecTypemap == InitTypemap /\ [][NextTypemap]_vars

\* ================================================================== ref_t
\* code 31, used internally for the wildcard '*'
WILDCARD == 31
\* the reference types of IDA are five bits wide
XrefTypes == 0..31
\* the characters of the states
Chars == {"r", "w", "x", "&", "*"}

\* ref_t.__mapper__, each string as the set of its characters: the table of
\* IDA before 7.0, or the one of 7.0 (fl_CF 16, fl_CN 17, fl_JF 18, fl_JN 19,
\* fl_F 21, dr_O 1, dr_I 5, dr_R 3, dr_W 2), and the wildcard
mapper(version7) ==
    IF version7
    THEN (16 :> {"r", "x"}) @@ (17 :> {"r", "x"}) @@ (18 :> {"r", "x"})
         @@ (19 :> {"r", "x"}) @@ (21 :> {"r", "x"})
         @@ (1 :> {"&", "r"}) @@ (5 :> {"&", "r"})
         @@ (3 :> {"r"}) @@ (2 :> {"w"}) @@ (WILDCARD :> {"*"})
    ELSE (1 :> {"&", "r"}) @@ (2 :> {"w"}) @@ (3 :> {"r"}) @@ (WILDCARD :> {"*"})

\* cls(xrtype, iterable): a set of characters that carries its code F
ref(F, iterable) == [exc |-> "none", F |-> F, state |-> iterable]
NoRef == [exc |-> "unset", F |-> 0, state |-> {}]
RefRaises(exc) == [exc |-> exc, F |-> 0, state |-> {}]

\* ref_t.of(xrtype): cls.__mapper__.get(xrtype, '')
of(version7, xrtype) ==
    LET m == mapper(version7)
    IN ref(xrtype, IF xrtype \in DOMAIN m THEN m[xrtype] ELSE {})

\* variant: a table entry matches when its characters are among the state's
of_state_subset(version7, state, isstr) ==
    LET m == mapper(version7)
        hits == {F \in DOMAIN m : m[F] \subseteq state}
    IN IF isstr /\ state = {"*"} THEN {ref(WILDCARD, {"*"})}
       ELSE IF hits = {} THEN {RefRaises("LookupError")}
       ELSE {ref(F, state) : F \in hits}

\* ref_t.of_state(state): what it may return.  The loop returns the first
\* entry of the table, in the order the interpreter walks the dictionary,
\* whose characters are exactly the state's, so each matching code is a
\* possible result; isstr tells that state is the string '*' or another string
of_state(version7, state, isstr) ==
    LET m == mapper(version7)
        hits == {F \in DOMAIN m : m[F] = state}
    IN IF isstr /\ state = {"*"} THEN {ref(WILDCARD, {"*"})}
       ELSE IF hits = {} THEN {RefRaises("LookupError")}
       ELSE {ref(F, state) : F \in hits}

\* xref: the version of IDA, the ref_t that of returned or the state given,
\* and what of_state returned for it
InitRef ==
    /\ InitHook
    /\ tmap = NoConv
    /\ regs = NoArch
    /\ switch = NoSwitch
    /\ xref \in {[stage |-> "start", version7 |-> v, viaof |-> FALSE,
                  given |-> NoRef, back |-> NoRef] : v \in BOOLEAN}

\* r = ref_t.of(xrtype)
do_of(xrtype) ==
    /\ xref.stage = "start"
    /\ xref' = [xref EXCEPT !.stage = "of", !.viaof = TRUE,
                            !.given = of(xref.version7, xrtype)]
    /\ UNCHANGED <<hookvars, tmap, regs, switch>>

\* ref_t.of_state(r)
do_of_state ==
    /\ xref.stage = "of"
    /\ \E res \in of_state(xref.version7, xref.given.state, FALSE) :
          xref' = [xref EXCEPT !.stage = "back", !.back = res]
    /\ UNCHANGED <<hookvars, tmap, regs, switch>>

\* ref_t.of_state(string)
do_of_state_string(chars) ==
    /\ xref.stage = "start"
    /\ \E res \in of_state(xref.version7, chars, TRUE) :
          xref' = [xref EXCEPT !.stage = "back", !.given = ref(0, chars),
                               !.back = res]
    /\ UNCHANGED <<hookvars, tmap, regs, switch>>

NextRef ==
    \/ \E xrtype \in XrefTypes : do_of(xrtype)
    \/ do_of_state
    \/ \E chars \in SUBSET Chars : do_of_state_string(chars)

SpecRef == InitRef /\ [][NextRef]_vars

\* ========================================================= architecture_t
\* regs.table holds the registers in the order of their definition; a
\* register is known by its place in it, as the code knows it by identity.
\* The names under which __register__ and __cache__ file a register play no
\* part in the methods modelled here.
\* the bit sizes and bit positions given to new and child
Bits == {8, 16}
Positions == {0, 8}

\* the namespace of a register: __parent__ (0 for None), __children__ (from
\* position to register), __position__, __size__ and alias
Register(parent, position, bits, alias) ==
    [parent |-> parent, children |-> [p \in {} |-> 0], position |-> position,
     size |-> bits, alias |-> alias]

\* architecture_t.new(name, bits, alias=...)
new_register(table, bits, alias) == Append(table, Register(0, 0, bits, alias))

\* architecture_t.child(parent, name, position, bits, alias=...):
\* parent.__children__[position] = res replaces a child defined there before
child_register(table, parent, position, bits, alias) ==
    LET res == Len(table) + 1
    IN [Append(table, Register(parent, position, bits, alias))
           EXCEPT ![parent].children = (position :> res) @@ @]

\* six.itervalues(node.__children__)
children_of(table, node) ==
    {table[node].children[p] : p \in DOMAIN table[node].children}

\* collect(node) of subsetQ
RECURSIVE collect(_, _)
collect(table, node) ==
    {node} \cup UNION {collect(table, n) : n \in children_of(table, node)}

\* the loop of supersetQ: the register and what __parent__ leads to
RECURSIVE parents(_, _)
parents(table, pos) ==
    IF pos = 0 THEN {} ELSE {pos} \cup parents(table, table[pos].parent)

\* register_t.subsetQ(self, other)
subsetQ(table, self, other) ==
    other \in table[self].alias \/ other \in collect(table, self)

\* variant: the children are looked at as well
supersetQ_related(table, self, other) ==
    \/ other \in table[self].alias
    \/ other \in parents(table, self) \cup collect(table, self)

\* register_t.supersetQ(self, other)
supersetQ(table, self, other) ==
    other \in table[self].alias \/ other \in parents(table, self)

\* what promote and demote give back: a register, or LookupError
Found(register) == [exc |-> "none", result |-> register]
NotFound == [exc |-> "LookupError", result |-> 0]

\* architecture_t.promote(register, size): size 0 stands for None
RECURSIVE promote(_, _, _)
promote(table, register, size) ==
    LET parent == table[register].parent
    IN IF size = 0
       THEN IF parent = 0 THEN NotFound ELSE Found(parent)
       ELSE IF table[register].size = size THEN Found(register)
       ELSE IF parent = 0 THEN NotFound
       ELSE promote(table, parent, size)

\* variant: the child at the highest position
firstchild_highest(table, register) ==
    LET ch == table[register].children
    IN ch[CHOOSE p \in DOMAIN ch : \A q \in DOMAIN ch : q <= p]

\* firstchild of demote: the first of the children sorted by position; used
\* where the register has children
firstchild(table, register) ==
    LET ch == table[register].children
    IN ch[CHOOSE p \in DOMAIN ch : \A q \in DOMAIN ch : p <= q]

\* architecture_t.demote(register, size): size 0 stands for None
RECURSIVE demote(_, _, _)
demote(table, register, size) ==
    LET leaf == DOMAIN table[register].children = {}
    IN IF size = 0
       THEN IF leaf THEN NotFound ELSE Found(firstchild(table, register))
       ELSE IF table[register].size = size THEN Found(register)
       ELSE IF leaf THEN NotFound
       ELSE demote(table, firstchild(table, register), size)

\* the registers defined so far
Registers == 1..Len(regs.table)
\* the alias sets given to child: none, or the first register defined
Aliases == {{}, {1}}

InitArch ==
    /\ InitHook
    /\ tmap = NoConv
    /\ xref = NoConv
    /\ regs = NoArch
    /\ switch = NoSwitch

\* architecture_t.new(name, bits)
new(bits) ==
    /\ Len(regs.table) < MaxRegisters
    /\ regs' = [table |-> new_register(regs.table, bits, {}), call |-> NoCall]
    /\ UNCHANGED <<hookvars, tmap, xref, switch>>

\* architecture_t.child(parent, name, position, bits, alias=alias)
child(parent, position, bits, alias) ==
    /\ Len(regs.table) < MaxRegisters
    /\ regs' = [table |-> child_register(regs.table, parent, position, bits, alias),
                call |-> NoCall]
    /\ UNCHANGED <<hookvars, tmap, xref, switch>>

\* architecture_t.promote(register, size)
call_promote(register, size) ==
    /\ LET r == promote(regs.table, register, size)
       IN regs' = [regs EXCEPT !.call =
                      [NoCall EXCEPT !.op = "promote", !.register = register,
                                     !.size = size, !.exc = r.exc,
                                     !.result = r.result]]
    /\ UNCHANGED <<hookvars, tmap, xref, switch>>

\* architecture_t.demote(register, size)
call_demote(register, size) ==
    /\ LET r == demote(regs.table, register, size)
       IN regs' = [regs EXCEPT !.call =
                      [NoCall EXCEPT !.op = "demote", !.register = register,
                                     !.size = size, !.exc = r.exc,
                                     !.result = r.result]]
    /\ UNCHANGED <<hookvars, tmap, xref, switch>>

\* architecture_t.demote(architecture_t.promote(register))
call_demote_promote(register) ==
    /\ LET p == promote(regs.table, register, 0)
           r == IF p.exc = "none" THEN demote(regs.table, p.result, 0) ELSE p
       IN regs' = [regs EXCEPT !.call =
                      [NoCall EXCEPT !.op = "demote_promote",
                                     !.register = register, !.other = p.result,
                                     !.exc = r.exc, !.result = r.result]]
    /\ UNCHANGED <<hookvars, tmap, xref, switch>>

\* register.subsetQ(other) and register.supersetQ(other)
call_subsetQ_supersetQ(register, other) ==
    /\ regs' = [regs EXCEPT !.call =
                   [NoCall EXCEPT !.op = "subsetQ_supersetQ",
                                  !.register = register, !.other = other,
                                  !.subset = subsetQ(regs.table, register, other),
                                  !.superset = supersetQ(regs.table, register, other)]]
    /\ UNCHANGED <<hookvars, tmap, xref, switch>>

NextArch ==
    \/ \E bits \in Bits : new(bits)
    \/ \E parent \in Registers, position \in Positions, bits \in Bits,
          alias \in Aliases : child(parent, position, bits, alias)
    \/ \E register \in Registers, size \in Bits \cup {0} : call_promote(register, size)
    \/ \E register \in Registers, size \in Bits \cup {0} : call_demote(register, size)
    \/ \E register \in Registers : call_demote_promote(register)
    \/ \E register \in Registers, other \in Registers :
          call_subsetQ_supersetQ(register, other)

SpecArch == InitArch /\ [][NextArch]_vars

\* =============================================================== switch_t
\* switch.object is the switch_info_ex_t that the switch_t wraps: is_indirect(),
\* ind_lowcase, ncases, jcases, and what the database holds at the addresses
\* jumps (the branch table) and lowcase (the index table of an indirect
\* switch). The entries of an index table are places in the branch table,
\* counted from 0, as the disassembler that filled the descriptor found them.
\* the values of ind_lowcase
LowCases == {-1, 0, 2}
\* the addresses of the handlers
Handlers == {100, 200}

\* the descriptors a switch_t is built from: the branch table holds jcases
\* entries when the switch is indirect and ncases entries otherwise, the index
\* table of an indirect switch holds ncases entries, and each of them is a
\* place of the branch table
SwitchInfos ==
    {o \in [indirect : BOOLEAN, ind_lowcase : LowCases, ncases : 0..MaxCases,
            jcases : 0..MaxCases,
            jumps : UNION {[1..k -> Handlers] : k \in 0..MaxCases},
            lowcase : UNION {[1..k -> 0..(MaxCases - 1)] : k \in 0..MaxCases}] :
        /\ o.jcases = 0 <=> ~o.indirect
        /\ Len(o.jumps) = IF o.indirect THEN o.jcases ELSE o.ncases
        /\ Len(o.lowcase) = IF o.indirect THEN o.ncases ELSE 0
        /\ \A i \in DOMAIN o.lowcase : o.lowcase[i] < o.jcases}
\* the case values asked for
Cases == {low + d : low \in LowCases \cup {0}, d \in -1..MaxCases}

\* database.get.array(ea, length=count): the first count entries found at ea
get_array(data, length) == SubSeq(data, 1, length)

\* array[idx] of Python: places count from 0, a negative idx counts from the
\* end, IndexError beyond either end
getitem(array, idx) ==
    IF 0 <= idx /\ idx < Len(array) THEN [exc |-> "none", value |-> array[idx + 1]]
    ELSE IF idx < 0 /\ -idx <= Len(array)
         THEN [exc |-> "none", value |-> array[Len(array) + idx + 1]]
    ELSE [exc |-> "IndexError", value |-> 0]

\* switch_t.indirectQ
indirectQ(o) == o.indirect

\* switch_t.branch
branch(o) ==
    IF indirectQ(o) THEN get_array(o.jumps, o.jcases)
    ELSE get_array(o.jumps, o.ncases)

\* switch_t.index
index(o) ==
    IF indirectQ(o) THEN get_array(o.lowcase, o.ncases)
    ELSE get_array(o.jumps, 0)

\* variant: the cases always count from 0
base_zero(o) == 0

\* switch_t.base
base(o) == IF o.indirect THEN o.ind_lowcase ELSE 0

\* switch_t.count
count(o) == o.ncases

\* switch_t.case(case): the handler, or the exception raised
switch_case(o, c) ==
    IF c < base(o) \/ c >= count(o) + base(o)
    THEN [exc |-> "ValueError", value |-> 0]
    ELSE LET idx == c - base(o)
             idx2 == IF indirectQ(o) THEN getitem(index(o), idx)
                     ELSE [exc |-> "none", value |-> idx]
         IN IF idx2.exc # "none" THEN idx2
            ELSE getitem(branch(o), idx2.value)

\* switch_t(switch_info_ex): no case has been asked for yet
switch_t(o) ==
    /\ switch' = [stage |-> "built", object |-> o,
                  call |-> [case |-> 0, exc |-> "unset", value |-> 0]]
    /\ UNCHANGED <<hookvars, tmap, xref, regs>>

\* switch_t.case(c)
case(c) ==
    /\ switch.stage # "none"
    /\ LET r == switch_case(switch.object, c)
       IN switch' = [switch EXCEPT !.stage = "called",
                        !.call = [case |-> c, exc |-> r.exc, value |-> r.value]]
    /\ UNCHANGED <<hookvars, tmap, xref, regs>>

NextSwitch ==
    \/ \E o \in SwitchInfos : switch_t(o)
    \/ \E c \in Cases : case(c)

SpecSwitch == Init /\ [][NextSwitch]_vars

TypeOK ==
    /\ DOMAIN cache \subseteq Names
    /\ disabled \subseteq Names
    /\ installed \subseteq KnownEvents
    /\ tracebacks \subseteq (Names \X Callables)

\* ------------------------------------------------------------ properties
\* the queue of an event in a cache, empty when the event has none
QueueOf(c, name) == IF name \in DOMAIN c THEN c[name] ELSE <<>>
Queue(name) == QueueOf(cache, name)
\* the (priority, callable) pairs of a queue
Entries(q) == {q[i] : i \in 1..Len(q)}
Ascending(q) == \A i, j \in 1..Len(q) : i < j => q[i][1] <= q[j][1]
\* a trampoline has run and last describes it
Fired == last.name # ""
AllContinue == \A i \in 1..Len(last.results) : last.results[i] = CONTINUE
Raised(l) == \E i \in 1..Len(l.results) : l.results[i] = "RAISE"

\* every queued callable has its backtrace, so the handler's lookup succeeds
TracebackKnown ==
    \A n \in DOMAIN cache : \A f \in Funcs(cache[n]) : <<n, f>> \in tracebacks

\* C1: a firing of an enabled event whose callbacks all return CONTINUE
\* invokes exactly the registered (priority, callable) entries of that event,
\* in ascending order of priority.
C1_PriorityOrder ==
    (Fired /\ last.entered /\ AllContinue) =>
        /\ Ascending(last.invoked)
        /\ Entries(last.invoked) = Entries(Queue(last.name))
        /\ Len(last.invoked) = Len(Queue(last.name))

\* three callbacks were invoked in ascending priority although the queue
\* stores them in another order
C1_Witness ==
    /\ Fired /\ last.entered /\ AllContinue
    /\ Len(last.invoked) = 3
    /\ ~Ascending(Queue(last.name))
    /\ Ascending(last.invoked)

\* C2: after a callback returns STOP no later callback of the queue is
\* invoked in that firing; after CONTINUE the next queued callback is invoked.
C2_StopContinue ==
    Fired => \A i \in 1..Len(last.results) :
        /\ last.results[i] = STOP => Len(last.invoked) = i
        /\ (last.results[i] = CONTINUE /\ i < Len(Queue(last.name)))
              => Len(last.invoked) > i

\* the first of several callbacks returned STOP and was the only one invoked
C2_Witness ==
    /\ Fired /\ Len(last.results) = 1 /\ last.results[1] = STOP
    /\ Len(Queue(last.name)) >= 2

\* C3: a callback that raises ends the loop like STOP: no later callback is
\* invoked, no exception leaves the trampoline, the superclass method is called.
C3_RaiseIsolated ==
    Fired => \A i \in 1..Len(last.results) :
        last.results[i] = "RAISE" =>
            /\ Len(last.invoked) = i
            /\ last.exc = "none"
            /\ last.super = 1

\* the first of several callbacks raised; the superclass method still ran
C3_Witness ==
    /\ Fired /\ Len(last.results) = 1 /\ last.results[1] = "RAISE"
    /\ Len(Queue(last.name)) >= 2
    /\ last.super = 1

\* C4: a firing in which a callback raises changes neither the cache, the
\* disabled set, the installed trampolines nor the backtraces, and a firing of
\* another enabled event right after it, with callbacks that return CONTINUE,
\* invokes every entry registered for that other event.
C4_RaiseLeavesState ==
    [][ /\ (last'.name # "" /\ Raised(last')) =>
              /\ cache' = cache
              /\ disabled' = disabled
              /\ installed' = installed
              /\ tracebacks' = tracebacks
        /\ (/\ Fired /\ Raised(last)
            /\ last'.name # "" /\ last'.name # last.name
            /\ last'.entered
            /\ \A i \in 1..Len(last'.results) : last'.results[i] = CONTINUE) =>
              /\ Entries(last'.invoked) = Entries(QueueOf(cache, last'.name))
              /\ Len(last'.invoked) = Len(QueueOf(cache, last'.name))
      ]_vars

\* a callback of one event raised while another event is hooked, enabled and
\* has callbacks registered
C4_Witness ==
    /\ Fired /\ Raised(last)
    /\ \E m \in KnownEvents \ {last.name} :
          m \in installed /\ m \notin disabled /\ Queue(m) # <<>>

C6_Original ==
    Fired => \A i \in 1..Len(last.results) :
        last.results[i] \in {"NONE", "RESULT"} =>
            /\ Len(last.invoked) = i
            /\ last.exc = "none"
            /\ last.super = 1

\* C6 amended: a return value that is no priorityhook.result goes on to the
\* next queued callback like CONTINUE; a priorityhook.result that is neither
\* CONTINUE nor STOP ends the loop with a TypeError that leaves the
\* trampoline before the superclass call.
C6_NonResultContinues ==
    Fired => \A i \in 1..Len(last.results) :
        /\ (last.results[i] = "NONE" /\ i < Len(Queue(last.name)))
              => Len(last.invoked) > i
        /\ (last.results[i] = "NONE" /\ i = Len(last.invoked))
              => (last.exc = "none" /\ last.super = 1)
        /\ last.results[i] = "RESULT" =>
              /\ Len(last.invoked) = i
              /\ last.exc = "TypeError"
              /\ last.super = 0

\* a callback returned a non-result value and the next callback was invoked
C6_Witness ==
    /\ Fired /\ Len(last.results) >= 2 /\ last.results[1] = "NONE"

\* C7: no queue ever holds a callable twice; after add(name, callable,
\* priority) on a known event the queue of name holds exactly one entry of
\* that callable, with the priority just given; a firing whose callbacks
\* return CONTINUE invokes each registered callable once.
C7_NoDuplicate ==
    /\ \A n \in DOMAIN cache : Cardinality(Funcs(cache[n])) = Len(cache[n])
    /\ (ret.op = "add" /\ ret.name \in KnownEvents) =>
          /\ ret.value = "True"
          /\ {e \in Entries(Queue(ret.name)) : e[2] = ret.callable}
                = {<<ret.priority, ret.callable>>}
    /\ (Fired /\ last.entered /\ AllContinue) =>
          /\ Cardinality(Funcs(last.invoked)) = Len(last.invoked)
          /\ Funcs(last.invoked) = Funcs(Queue(last.name))

\* an add has just replaced an earlier registration of the same callable in a
\* queue that holds other callables too
C7_Witness ==
    /\ ret.op = "add" /\ ret.found /\ ret.value = "True"
    /\ \E n \in DOMAIN cache : Len(cache[n]) >= 2

\* the priority under which a queue holds a callable
PriorityOf(q, f) == (CHOOSE e \in Entries(q) : e[2] = f)[1]

\* C8 as stated: get returns the callbacks in ascending order of priority.
C8_Original ==
    ret.op = "get" =>
        \A i, j \in 1..Len(ret.items) : i < j =>
            PriorityOf(Queue(ret.name), ret.items[i])
               <= PriorityOf(Queue(ret.name), ret.items[j])

\* C8 amended: get returns every callable registered for the event exactly
\* once, in the order in which the queue stores them.
C8_GetAllOnce ==
    ret.op = "get" =>
        /\ Len(ret.items) = Len(Queue(ret.name))
        /\ {ret.items[i] : i \in 1..Len(ret.items)} = Funcs(Queue(ret.name))
        /\ Cardinality(Funcs(Queue(ret.name))) = Len(ret.items)
        /\ \A i \in 1..Len(ret.items) : ret.items[i] = Queue(ret.name)[i][2]

\* get returned three callables of a queue that is not stored in ascending
\* priority
C8_Witness ==
    /\ ret.op = "get" /\ Len(ret.items) = 3
    /\ ~Ascending(Queue(ret.name))

\* C9: discard(name, callable) raises and changes nothing for a name that is
\* no event of the hook object; otherwise it returns True exactly when the
\* callable was in the queue of name, removes the entries of that callable
\* from that queue and leaves every other entry of every queue, with its
\* priority, and the disabled set as they were.
C9_Discard ==
    [][ ret'.op = "discard" =>
           LET n == ret'.name
               f == ret'.callable
           IN IF n \notin KnownEvents
              THEN /\ ret'.value = "AttributeError"
                   /\ cache' = cache /\ disabled' = disabled
                   /\ installed' = installed /\ tracebacks' = tracebacks
              ELSE /\ ret'.value = (IF f \in Funcs(Queue(n)) THEN "True" ELSE "False")
                   /\ \A m \in Names :
                         Entries(QueueOf(cache', m)) =
                            {e \in Entries(Queue(m)) : m # n \/ e[2] # f}
                   /\ \A m \in Names : Len(QueueOf(cache', m)) =
                         Cardinality({e \in Entries(Queue(m)) : m # n \/ e[2] # f})
                   /\ disabled' = disabled
      ]_vars

\* a discard has just removed a callable and both events still hold entries
C9_Witness ==
    /\ ret.op = "discard" /\ ret.found /\ ret.value = "True"
    /\ \A n \in KnownEvents : Queue(n) # <<>>

\* C10 as stated: disable of an event without callbacks, disable of a
\* disabled event and enable of an event that is not disabled return False
\* and leave the cache and the disabled set as they were.
C10_NegativeAck ==
    [][ (\/ ret'.op = "disable" /\ (Queue(ret'.name) = <<>> \/ ret'.name \in disabled)
         \/ ret'.op = "enable" /\ ret'.name \notin disabled) =>
           /\ ret'.value = "False"
           /\ cache' = cache
           /\ disabled' = disabled
      ]_vars

\* C11: a firing of a disabled event invokes nothing and changes nothing;
\* disable and enable leave every queue with its callbacks and priorities as
\* it was and only put the event into, or take it out of, the disabled set; a
\* firing of an event that is not disabled, with callbacks that return
\* CONTINUE, invokes the queue in its sorted order, which the registrations
\* alone determine, so it is the same before a disable and after the enable.
C11_DisableEnable ==
    [][ /\ ret'.op \in {"enable", "disable"} =>
              /\ cache' = cache
              /\ installed' = installed
              /\ tracebacks' = tracebacks
              /\ disabled' \ {ret'.name} = disabled \ {ret'.name}
        /\ (ret'.op = "disable" /\ ret'.value = "True") => ret'.name \in disabled'
        /\ (ret'.op = "enable" /\ ret'.value = "True") => ret'.name \notin disabled'
        /\ last'.name # "" =>
              IF last'.name \in disabled
              THEN last'.invoked = <<>> /\ cache' = cache /\ disabled' = disabled
              ELSE (/\ last'.entered
                    /\ \A i \in 1..Len(last'.results) : last'.results[i] = CONTINUE)
                      => last'.invoked = sorted(Queue(last'.name))
      ]_vars

\* an event with two callbacks, stored out of order, has just been enabled
\* again
C11_Witness ==
    /\ ret.op = "enable" /\ ret.value = "True"
    /\ Len(Queue(ret.name)) >= 2
    /\ ~Ascending(Queue(ret.name))

\* C12: cycle, whatever it is given and however often it is called, leaves
\* the queues with their callbacks and priorities, the disabled set and the
\* backtraces as they were.
C12_CycleKeeps ==
    [][ ret'.op = "cycle" =>
           /\ cache' = cache
           /\ disabled' = disabled
           /\ tracebacks' = tracebacks
      ]_vars

\* cycle has built its second object while two callbacks are queued for an
\* event and an event is disabled
C12_Witness ==
    /\ ret.op = "cycle" /\ ret.value = "object"
    /\ Len(hooks) >= 3
    /\ disabled # {}
    /\ \E n \in DOMAIN cache : Len(cache[n]) >= 2

\* C13 as stated: after cycle returns an object, the object that was
\* self.object is unhooked and the object returned is self.object, with a
\* trampoline for every event of the cache; after a later add on a known event
\* every hooked object has a trampoline for that event; after remove no
\* object is hooked.
C13_CycleInstalls ==
    [][ /\ (ret'.op = "cycle" /\ ret'.value = "object") =>
              /\ ~hooks'[object].hooked
              /\ object' = ret'.items[1]
              /\ hooks'[object'].hooked
              /\ DOMAIN cache \subseteq hooks'[object'].methods
        /\ (ret'.op = "add" /\ ret'.value = "True") =>
              \A o \in DOMAIN hooks' :
                  hooks'[o].hooked =>
                      ret'.name \in hooks'[o].methods
                         \cup (IF o = object' THEN installed' ELSE {})
        /\ ret'.op = "remove" =>
              \A o \in DOMAIN hooks' : ~hooks'[o].hooked
      ]_vars

\* the kind that a type of typemap.typemap stands for
KindOf(t) ==
    CASE t \in {"int", "long"} -> "integer"
      [] t = "float" -> "float"
      [] t \in {"chr", "str", "unicode"} -> "string"
      [] t = "type" -> "pointer"
      [] OTHER -> "alignment"

\* C14 as stated: for every tuple (kind, size) that resolve accepts, dissolve
\* of the triple that resolve returned is the tuple of that kind and size.
C14_ScalarRoundTrip ==
    (tmap.stage = "dissolved" /\ tmap.py.form = "tuple") =>
        /\ tmap.out.form = "tuple"
        /\ KindOf(tmap.out.t) = KindOf(tmap.py.t)
        /\ tmap.out.sz = tmap.py.sz

\* C15 as stated: for every list [(kind, size), n] with n > 1 whose element
\* resolve accepts, dissolve of the triple that resolve returned is a list of
\* n elements of that kind and that signed size.
C15_ArrayRoundTrip ==
    (/\ tmap.stage = "dissolved" /\ tmap.py.form = "list"
     /\ tmap.py.element.form = "tuple" /\ tmap.py.count > 1) =>
        /\ tmap.out.form = "list"
        /\ tmap.out.count = tmap.py.count
        /\ tmap.out.element.form = "tuple"
        /\ KindOf(tmap.out.element.t) = KindOf(tmap.py.element.t)
        /\ tmap.out.element.sz = tmap.py.element.sz

\* C16 as stated: for the flag of a structure, dissolve returns the list
\* [structure, size / its size] when the size of the structure divides size
\* and the quotient is more than 1, and the structure alone otherwise; the
\* count of a list it returns is never 0 or 1.
C16_StructureArray ==
    (/\ tmap.stage = "dissolved"
     /\ dissolve_dt(tmap.ida.flag) = FF_STRU
     /\ tmap.ida.typeid.kind = "struct") =>
        LET id == tmap.ida.typeid.id
            sz == StructSizes[id]
            size == tmap.ida.size
        IN /\ IF sz # 0 /\ size % sz = 0 /\ size \div sz > 1
              THEN tmap.out = PyList(PyStruct(id), size \div sz)
              ELSE tmap.out = PyStruct(id)
           /\ ~(tmap.out.form = "list" /\ tmap.out.count \in {0, 1})

\* the codes of the table whose set of characters no other code has
UniqueCodes(version7) ==
    LET m == mapper(version7)
    IN {F \in DOMAIN m : \A G \in DOMAIN m : m[G] = m[F] => G = F}

\* C17: of_state(of(code)) carries the code again, for every code of the
\* table whose set no other code shares; of_state of the wildcard set, or of
\* the string '*', carries code 31.
C17_RefRoundTrip ==
    xref.stage = "back" =>
        /\ (xref.viaof /\ xref.given.F \in UniqueCodes(xref.version7)) =>
              /\ xref.back.exc = "none"
              /\ xref.back.F = xref.given.F
              /\ xref.back.state = xref.given.state
        /\ xref.given.state = {"*"} =>
              (xref.back.exc = "none" /\ xref.back.F = WILDCARD)

\* code 1, whose set {&, r} contains the set of code 3, came back as code 1
\* from the table of IDA before 7.0
C17_Witness ==
    /\ xref.stage = "back" /\ xref.viaof /\ ~xref.version7
    /\ xref.given.F = 1
    /\ xref.back.F = 1

\* the register without parent that the __parent__ links of r lead to
RECURSIVE RootOf(_, _)
RootOf(table, r) ==
    IF table[r].parent = 0 THEN r ELSE RootOf(table, table[r].parent)
\* the registers above r: parents(r) without r itself
Ancestors(table, r) == parents(table, r) \ {r}
\* the registers whose __parent__ is P
ChildrenOf(table, P) == {c \in 1..Len(table) : table[c].parent = P}

\* C18: for two distinct registers of one family, subsetQ and supersetQ of
\* the one with the other are not both true, unless one is in the alias set of
\* the other.
C18_Antisymmetric ==
    LET A == regs.call.register
        B == regs.call.other
    IN (/\ regs.call.op = "subsetQ_supersetQ"
        /\ A # B
        /\ RootOf(regs.table, A) = RootOf(regs.table, B)) =>
           \/ ~(regs.call.subset /\ regs.call.superset)
           \/ B \in regs.table[A].alias
           \/ A \in regs.table[B].alias

\* a register was compared with the child of its child: subsetQ holds,
\* supersetQ does not
C18_Witness ==
    /\ regs.call.op = "subsetQ_supersetQ"
    /\ regs.call.other \in Registers
    /\ regs.table[regs.call.other].parent # 0
    /\ regs.table[regs.table[regs.call.other].parent].parent = regs.call.register
    /\ regs.table[regs.call.other].alias = {}
    /\ regs.call.subset
    /\ ~regs.call.superset

\* C19 as stated: promote(register, size) gives a register above the one
\* given, never that register itself: its parent when size is None, else the
\* nearest register above it whose size is size; it raises LookupError where
\* there is no such register.
C19_PromoteUpward ==
    regs.call.op = "promote" =>
        LET r == regs.call.register
            above == Ancestors(regs.table, r)
            fits == IF regs.call.size = 0 THEN {regs.table[r].parent} \ {0}
                    ELSE {a \in above : regs.table[a].size = regs.call.size}
        IN IF fits = {} THEN regs.call.exc = "LookupError"
           ELSE /\ regs.call.exc = "none"
                /\ regs.call.result # r
                /\ regs.call.result \in fits
                /\ \A a \in fits : regs.call.result \in parents(regs.table, a)

\* C20: for a register R with a parent P, demote(promote(R)) is R when R is
\* the one child of P at the lowest position among the children of P; when R
\* lies at a higher position it is another child of P, one at the lowest
\* position.
C20_DemotePromote ==
    LET R == regs.call.register
    IN (regs.call.op = "demote_promote" /\ regs.table[R].parent # 0) =>
          LET P == regs.table[R].parent
              sibs == ChildrenOf(regs.table, P)
              lowest == {c \in sibs : \A d \in sibs :
                            regs.table[c].position <= regs.table[d].position}
          IN /\ regs.call.exc = "none"
             /\ regs.call.other = P
             /\ lowest = {R} => regs.call.result = R
             /\ R \notin lowest =>
                   (regs.call.result # R /\ regs.call.result \in lowest)

\* demote(promote(R)) gave the sibling at position 0 for an R at position 8
C20_Witness ==
    /\ regs.call.op = "demote_promote"
    /\ regs.call.exc = "none"
    /\ regs.call.result # 0
    /\ regs.call.result # regs.call.register
    /\ regs.table[regs.call.register].position = 8
    /\ regs.table[regs.call.result].position = 0

\* the bits [position, position + size) that r takes of its parent
RangeOf(table, r) ==
    {b \in -64..64 : table[r].position <= b
                     /\ b < table[r].position + table[r].size}

\* C21 as stated: whatever new and child were called with, the range
\* [position, position + size) of every register with a parent lies inside
\* the size of that parent, the ranges of two registers with the same parent
\* do not overlap, and a register made by new has no parent (it lies at
\* position 0).
C21_RangesNested ==
    /\ \A r \in Registers :
          IF regs.table[r].parent = 0
          THEN regs.table[r].position = 0
          ELSE /\ 0 <= regs.table[r].position
               /\ regs.table[r].position + regs.table[r].size
                     <= regs.table[regs.table[r].parent].size
    /\ \A c \in Registers, d \in Registers :
          (c # d /\ regs.table[c].parent # 0
                 /\ regs.table[c].parent = regs.table[d].parent) =>
             RangeOf(regs.table, c) \cap RangeOf(regs.table, d) = {}

\* C27 as stated: for registers A and B with empty alias sets, however they
\* were defined with new and child, A.subsetQ(B) is true exactly when
\* B.supersetQ(A) is true.
C27_SubsetSupersetSymmetric ==
    LET A == regs.call.register
        B == regs.call.other
    IN (/\ regs.call.op = "subsetQ_supersetQ"
        /\ regs.table[A].alias = {}
        /\ regs.table[B].alias = {}) =>
           (regs.call.subset <=> supersetQ(regs.table, B, A))

\* C22: for a switch with base b and n > 0 cases, case(b - 1) and case(b + n)
\* raise the out-of-bounds ValueError, while case(b) and case(b + n - 1) give
\* an entry of the branch table: the one at the place the index table holds
\* for the case when the switch is indirect, else the one at case - b.
C22_CaseBounds ==
    (switch.stage = "called" /\ switch.object.ncases > 0) =>
        LET o == switch.object
            b == IF o.indirect THEN o.ind_lowcase ELSE 0
            n == o.ncases
            c == switch.call.case
        IN /\ c \in {b - 1, b + n} => switch.call.exc = "ValueError"
           /\ c \in {b, b + n - 1} =>
                 /\ switch.call.exc = "none"
                 /\ switch.call.value =
                       IF o.indirect THEN o.jumps[o.lowcase[c - b + 1] + 1]
                       ELSE o.jumps[c - b + 1]

\* the last case of an indirect switch with base 2 was asked for, and the
\* handler came from the place of the branch table that the index table names
C22_Witness ==
    /\ switch.stage = "called"
    /\ switch.object.indirect
    /\ switch.object.ind_lowcase = 2
    /\ switch.object.ncases = 2
    /\ switch.call.case = 3
    /\ switch.object.lowcase = <<1, 0>>
    /\ switch.object.jumps = <<100, 200>>
    /\ switch.call.exc = "none"
    /\ switch.call.value = 100

\* the place of the callable f in the order in which a firing walks the queue q
FiringPlace(q, f) ==
    LET order == get_tuple(nsmallest(q))
    IN CHOOSE i \in 1..Len(order) : order[i] = f

\* C23 as stated: callbacks of one event with equal priority are invoked in
\* the order of their registration: a callable that add registers is walked
\* by a firing after every callable that was registered for the event with
\* the same priority before it.
C23_TiesByInsertion ==
    [][(/\ ret'.op = "add"
        /\ ret'.value = "True"
        /\ ret'.name \in DOMAIN cache) =>
           \A f \in Funcs(cache[ret'.name]) \ {ret'.callable} :
              PriorityOf(cache[ret'.name], f) = ret'.priority =>
                 FiringPlace(cache'[ret'.name], f)
                    < FiringPlace(cache'[ret'.name], ret'.callable)]_vars

\* the event name has no callback registered
NoCallbacks(name) == name \notin DOMAIN cache \/ cache[name] = <<>>

\* C24 as stated: get leaves an event without callbacks unregistered: an add
\* that registers the first callback of an event of the hook type leaves the
\* trampoline of the event installed on the hook object, whether or not get
\* was called for the event before, and disable of an event without callbacks
\* is refused.
C24_GetIsPure ==
    [][/\ (ret'.op = "add" /\ ret'.value = "True" /\ NoCallbacks(ret'.name)) =>
             ret'.name \in installed'
       /\ (ret'.op = "disable" /\ NoCallbacks(ret'.name)) =>
             (ret'.value # "True" /\ disabled' = disabled)]_vars

\* C25 as stated: the discard of the last callback of an event leaves the
\* event unregistered and not disabled, so that a callback added to it later
\* is invoked by the next firing without a call of enable.
C25_DiscardClearsDisabled ==
    [][(/\ ret'.op = "discard"
        /\ ret'.found
        /\ ret'.name \notin DOMAIN cache') =>
           ret'.name \notin disabled']_vars

\* the places of the calls in which callbacks named the callable g
CallsOn(done, g) == {i \in DOMAIN done : done[i].op # "none" /\ done[i].callable = g}

\* C26: the callbacks that one firing invokes, and their order, are those of
\* the queue as it was when the firing began, whatever add and discard calls
\* the callbacks make for the event meanwhile: the entries invoked are the
\* first of that order, up to the end or to the first callback that does not
\* let the dispatch go on. The calls show in the queue that the firing
\* leaves: a callable is in it as the last call that named it left it, and
\* as before when no call named it.
C26_FiringFixedAtStart ==
    [][ret'.op = "method" =>
          LET name == ret'.name
              order == nsmallest(QueueOf(cache, name))
              inv == last'.invoked
              done == ret'.items
              after == QueueOf(cache', name)
          IN /\ Len(inv) <= Len(order)
             /\ inv = SubSeq(order, 1, Len(inv))
             /\ \A i \in 1..Len(inv) :
                   (i < Len(inv) => last'.results[i] \in {CONTINUE, "NONE"})
             /\ Len(inv) < Len(order) =>
                   last'.results[Len(inv)] \notin {CONTINUE, "NONE"}
             /\ \A g \in Callables :
                   IF CallsOn(done, g) = {}
                   THEN \A e \in Entries(QueueOf(cache, name)) :
                           e[2] = g => e \in Entries(after)
                   ELSE LET k == CHOOSE i \in CallsOn(done, g) :
                                    \A j \in CallsOn(done, g) : j <= i
                        IN IF done[k].op = "add"
                           THEN <<done[k].priority, g>> \in Entries(after)
                           ELSE g \notin Funcs(after)]_vars

\* a callback discarded one that came after it in the order of the firing;
\* that one was invoked all the same and is gone from the queue afterwards
C26_Witness ==
    /\ ret.op = "method"
    /\ \E i \in DOMAIN ret.items, j \in DOMAIN last.invoked :
          /\ i < j
          /\ ret.items[i].op = "discard"
          /\ ret.items[i].callable = last.invoked[j][2]
          /\ last.invoked[j][2] \notin Funcs(Queue(ret.name))

====
